---- MODULE Spec2Model ----
(***************************************************************************)
(* Model of the sequence alignment engine (services/alignmentService.ts):  *)
(* Needleman-Wunsch (global) and Smith-Waterman (local) matrix fill,       *)
(* traceback and identity, driven by a small state machine that picks the  *)
(* inputs and runs one of the two engine entry points (Spec).  The App     *)
(* component's handlers with the asynchronous handleAlign (AppSpec) and    *)
(* the text normalisers cleanSequence and parseFasta (NormSpec) are        *)
(* modelled on the same variables.                                         *)
(*                                                                         *)
(* Strings are sequences of one-character strings.  JavaScript strings are *)
(* 0-indexed and TLA+ sequences 1-indexed, so the source's seq1[i - 1] is  *)
(* CharAt(seq1, i - 1), which reads element i of the TLA+ sequence.        *)
(***************************************************************************)
EXTENDS Integers, Sequences, FiniteSets, TLC

(* ------------------------------ bounds --------------------------------- *)
MaxLen == 2
MaxScore == 1

Alphabet == {"A", "C"}
\* the inputs of the spec's concrete scenarios that Alphabet does not give
ExamplePairs == { << <<"A", "C", "G", "T">>, <<"A", "C">> >>,
                  << <<"A", "C">>, <<"G", "T">> >> }

SeqsUpTo(k) == UNION { [1..l -> Alphabet] : l \in 0..k }
InputPairs == (SeqsUpTo(MaxLen) \X SeqsUpTo(MaxLen)) \cup ExamplePairs
ScoreVals == (0 - MaxScore)..MaxScore

(* ------------------------------ types ---------------------------------- *)
DIAGONAL == "DIAGONAL"
UP == "UP"
LEFT == "LEFT"
STOP == "STOP"
Move == {DIAGONAL, UP, LEFT, STOP}

Scoring == [match : ScoreVals, mismatch : ScoreVals, gap : ScoreVals]

NeedlemanWunsch == "Needleman-Wunsch (Global)"
SmithWaterman == "Smith-Waterman (Local)"

GapChar == "-"
\* what a JavaScript string index outside 0..length-1 evaluates to
Undefined == "undefined"
NoResult == [none |-> TRUE]

(* ----------------------------- helpers --------------------------------- *)
\* s[k] of the source, k being the 0-based JavaScript index
CharAt(s, k) == IF k >= 0 /\ k < Len(s) THEN s[k + 1] ELSE Undefined

\* undefined converted to a string, as + does
UndefinedText == <<"u", "n", "d", "e", "f", "i", "n", "e", "d">>

\* c + s of the source: c prepended to the string s
Prepend(c, s) == IF c = Undefined THEN UndefinedText \o s ELSE <<c>> \o s

\* grid[i][j] of the source where grid[i] exists: undefined outside the row
GridAt(grid, i, j) == IF j \in DOMAIN grid[i] THEN grid[i][j] ELSE Undefined

\* path returned in the order it was pushed (end to start)
Reverse_NotReversed(s) == s

\* path.reverse()
Reverse(s) == [k \in 1..Len(s) |-> s[Len(s) + 1 - k]]

\* Math.max(0, a, b, c)
Max4(z, a, b, c) == CHOOSE x \in {z, a, b, c} : \A y \in {z, a, b, c} : x >= y

\* Array.from({ length: n + 2 }, ...): one row too many
NewGrid_ExtraRow(n, m, v) == [i \in 0..(n + 1) |-> [j \in 0..m |-> v]]

\* Array.from({ length: n + 1 }, () => Array(m + 1).fill(v))
NewGrid(n, m, v) == [i \in 0..n |-> [j \in 0..m |-> v]]

(* --------------------- IEEE-754 double arithmetic ---------------------- *)
(* identity is a JavaScript number computed by a division and a            *)
(* multiplication, each rounded to the nearest double (ties to even).  A   *)
(* positive double is [mant, exp] with value mant * 2^exp, mant being its  *)
(* 53-bit significand 2^52 <= mant < 2^53, kept as three limbs <<h, m, l>> *)
(* of 17, 18 and 18 bits: mant = h * 2^36 + m * 2^18 + l.  Zero has the    *)
(* empty significand.  Operands are integers below 2^13, exact as doubles. *)
MantBits == 53
LimbBits == 18
LimbBase == 2 ^ LimbBits
TopBits == MantBits - 2 * LimbBits
TopBase == 2 ^ TopBits

FZero == [mant |-> <<>>, exp |-> 0]

\* the significand one unit in the last place up, the carry going limb to limb
IncMant(mant) ==
    LET l == mant[3] + 1
        mid == mant[2] + (l \div LimbBase)
    IN  <<mant[1] + (mid \div LimbBase), mid % LimbBase, l % LimbBase>>

\* round-to-nearest, ties-to-even: mant is the 53-bit significand, up says
\* the discarded part is above one half, tie that it is exactly one half
RoundNearestEven(mant, exp, up, tie) ==
    LET roundUp == up \/ (tie /\ mant[3] % 2 = 1)
        inc == IF roundUp THEN IncMant(mant) ELSE mant
    IN  IF inc[1] >= TopBase
        THEN [mant |-> <<TopBase \div 2, 0, 0>>, exp |-> exp + 1]
        ELSE [mant |-> inc, exp |-> exp]

\* the power of two s with d * 2^s <= a < d * 2^(s+1) (s may be negative)
RECURSIVE Normalise(_, _, _)
Normalise(a, d, s) ==
    IF a < d THEN Normalise(2 * a, d, s - 1)
    ELSE IF a >= 2 * d THEN Normalise(a, 2 * d, s + 1)
    ELSE [num |-> a, den |-> d, shift |-> s]

\* long division of num by den (den <= num < 2 den): the leading quotient
\* bit is 1, then 16, 18 and 18 quotient bits from the running remainder;
\* rem2 is twice the remainder left after them
LongDiv(num, den) ==
    LET r0 == num - den
        d1 == (r0 * (TopBase \div 2)) \div den
        r1 == (r0 * (TopBase \div 2)) % den
        d2 == (r1 * LimbBase) \div den
        r2 == (r1 * LimbBase) % den
        d3 == (r2 * LimbBase) \div den
        r3 == (r2 * LimbBase) % den
    IN  [mant |-> <<(TopBase \div 2) + d1, d2, d3>>, rem2 |-> 2 * r3]

\* a / b in double arithmetic, for integers a >= 0 and b >= 1
FDiv(a, b) ==
    IF a = 0 THEN FZero
    ELSE LET nm == Normalise(a, b, 0)
             q == LongDiv(nm.num, nm.den)
         IN  RoundNearestEven(q.mant, nm.shift - (MantBits - 1),
                              q.rem2 > nm.den, q.rem2 = nm.den)

\* x * c in double arithmetic, for a double x >= 0 and an integer c >= 1:
\* the exact product limb by limb (its top limb stays below 2^30), then the
\* e bits beyond 53 rounded away
FMul(x, c) ==
    IF x = FZero THEN FZero
    ELSE LET pl == x.mant[3] * c
             pm == x.mant[2] * c + (pl \div LimbBase)
             ph == x.mant[1] * c + (pm \div LimbBase)
             m == pm % LimbBase
             l == pl % LimbBase
             e == CHOOSE k \in 0..(30 - TopBits) : ph \div (2 ^ k) < TopBase
                                                 /\ ph \div (2 ^ k) >= TopBase \div 2
             low == 2 ^ e
             high == 2 ^ (LimbBits - e)
             kept == <<ph \div low,
                       (ph % low) * high + (m \div low),
                       (m % low) * high + (l \div low)>>
             dropped == l % low
         IN  RoundNearestEven(kept, x.exp + e,
                              e > 0 /\ 2 * dropped > low, e > 0 /\ 2 * dropped = low)

(* --------------------------- calculateIdentity ------------------------- *)
\* the loop started at i = 1: the first column is never counted
CountMatches_SkipFirst(s1, s2) ==
    Cardinality({i \in 1..(Len(s1) - 1) :
                    CharAt(s1, i) = CharAt(s2, i) /\ CharAt(s1, i) # GapChar})

\* the loop of calculateIdentity: the positions i < s1.length that count
CountMatches(s1, s2) ==
    Cardinality({i \in 0..(Len(s1) - 1) :
                    CharAt(s1, i) = CharAt(s2, i) /\ CharAt(s1, i) # GapChar})

calculateIdentity(s1, s2) ==
    IF Len(s1) = 0 THEN FZero
    ELSE FMul(FDiv(CountMatches(s1, s2), Len(s1)), 100)

(* -------------------------- runNeedlemanWunsch ------------------------- *)
\* the boundary loops with matrix[0][j] = gap instead of j * gap
NWInit_RowGap(n, m, scoring) ==
    LET matrix == NewGrid(n, m, 0)
        trace == NewGrid(n, m, STOP)
    IN  [matrix |-> [i \in DOMAIN matrix |-> [j \in DOMAIN matrix[i] |->
                        IF j = 0 /\ i \in 1..n THEN i * scoring.gap
                        ELSE IF i = 0 /\ j \in 1..m THEN scoring.gap
                        ELSE matrix[i][j]]],
         trace  |-> [i \in DOMAIN trace |-> [j \in DOMAIN trace[i] |->
                        IF j = 0 /\ i \in 1..n THEN UP
                        ELSE IF i = 0 /\ j \in 1..m THEN LEFT
                        ELSE trace[i][j]]]]

\* the boundary loops recording the moves but leaving the scores at 0
NWInit_ZeroBoundary(n, m, scoring) ==
    LET matrix == NewGrid(n, m, 0)
        trace == NewGrid(n, m, STOP)
    IN  [matrix |-> matrix,
         trace  |-> [i \in DOMAIN trace |-> [j \in DOMAIN trace[i] |->
                        IF j = 0 /\ i \in 1..n THEN UP
                        ELSE IF i = 0 /\ j \in 1..m THEN LEFT
                        ELSE trace[i][j]]]]

\* the boundary loops recording LEFT in column 0 where the source has UP
NWInit_ColumnLeft(n, m, scoring) ==
    LET matrix == NewGrid(n, m, 0)
        trace == NewGrid(n, m, STOP)
    IN  [matrix |-> [i \in DOMAIN matrix |-> [j \in DOMAIN matrix[i] |->
                        IF j = 0 /\ i \in 1..n THEN i * scoring.gap
                        ELSE IF i = 0 /\ j \in 1..m THEN j * scoring.gap
                        ELSE matrix[i][j]]],
         trace  |-> [i \in DOMAIN trace |-> [j \in DOMAIN trace[i] |->
                        IF j = 0 /\ i \in 1..n THEN LEFT
                        ELSE IF i = 0 /\ j \in 1..m THEN LEFT
                        ELSE trace[i][j]]]]

\* Step 1: the two grids after the boundary loops (i = 1..n, then j = 1..m)
NWInit(n, m, scoring) ==
    LET matrix == NewGrid(n, m, 0)
        trace == NewGrid(n, m, STOP)
    IN  [matrix |-> [i \in DOMAIN matrix |-> [j \in DOMAIN matrix[i] |->
                        IF j = 0 /\ i \in 1..n THEN i * scoring.gap
                        ELSE IF i = 0 /\ j \in 1..m THEN j * scoring.gap
                        ELSE matrix[i][j]]],
         trace  |-> [i \in DOMAIN trace |-> [j \in DOMAIN trace[i] |->
                        IF j = 0 /\ i \in 1..n THEN UP
                        ELSE IF i = 0 /\ j \in 1..m THEN LEFT
                        ELSE trace[i][j]]]]

\* seq1[i - 1] !== seq2[j - 1] ? match : mismatch: the comparison inverted
MatchScore_Inverted(seq1, seq2, scoring, i, j) ==
    IF CharAt(seq1, i - 1) # CharAt(seq2, j - 1) THEN scoring.match ELSE scoring.mismatch

\* matchScore of both fill loops
MatchScore(seq1, seq2, scoring, i, j) ==
    IF CharAt(seq1, i - 1) = CharAt(seq2, j - 1) THEN scoring.match ELSE scoring.mismatch

\* the tie-break with > where the source has >=
NWCell_StrictTie(g, seq1, seq2, scoring, i, j) ==
    LET matchScore == MatchScore(seq1, seq2, scoring, i, j)
        diagonal == g.matrix[i - 1][j - 1] + matchScore
        up == g.matrix[i - 1][j] + scoring.gap
        left == g.matrix[i][j - 1] + scoring.gap
    IN  IF diagonal > up /\ diagonal > left
        THEN [matrix |-> [g.matrix EXCEPT ![i][j] = diagonal],
              trace  |-> [g.trace EXCEPT ![i][j] = DIAGONAL]]
        ELSE IF up > left
        THEN [matrix |-> [g.matrix EXCEPT ![i][j] = up],
              trace  |-> [g.trace EXCEPT ![i][j] = UP]]
        ELSE [matrix |-> [g.matrix EXCEPT ![i][j] = left],
              trace  |-> [g.trace EXCEPT ![i][j] = LEFT]]

\* Step 2, one iteration of the inner loop: cell (i, j)
NWCell(g, seq1, seq2, scoring, i, j) ==
    LET matchScore == MatchScore(seq1, seq2, scoring, i, j)
        diagonal == g.matrix[i - 1][j - 1] + matchScore
        up == g.matrix[i - 1][j] + scoring.gap
        left == g.matrix[i][j - 1] + scoring.gap
    IN  IF diagonal >= up /\ diagonal >= left
        THEN [matrix |-> [g.matrix EXCEPT ![i][j] = diagonal],
              trace  |-> [g.trace EXCEPT ![i][j] = DIAGONAL]]
        ELSE IF up >= left
        THEN [matrix |-> [g.matrix EXCEPT ![i][j] = up],
              trace  |-> [g.trace EXCEPT ![i][j] = UP]]
        ELSE [matrix |-> [g.matrix EXCEPT ![i][j] = left],
              trace  |-> [g.trace EXCEPT ![i][j] = LEFT]]

\* Step 2: the nested loops, from cell (i, j) on in row-major order
RECURSIVE NWFill(_, _, _, _, _, _)
NWFill(g, seq1, seq2, scoring, i, j) ==
    IF i > Len(seq1) THEN g
    ELSE IF j > Len(seq2) THEN NWFill(g, seq1, seq2, scoring, i + 1, 1)
    ELSE NWFill(NWCell(g, seq1, seq2, scoring, i, j), seq1, seq2, scoring, i, j + 1)

\* the loop body with the two gap branches exchanged: UP writes the gap into
\* alignedSeq1 and LEFT writes it into alignedSeq2
TraceStep_GapsExchanged(t, trace, seq1, seq2) ==
    IF t.i \notin DOMAIN trace THEN [t EXCEPT !.fault = "TypeError"]
    ELSE
    LET move == GridAt(trace, t.i, t.j)
        pushed == Append(t.path, [row |-> t.i, col |-> t.j])
        c1 == CharAt(seq1, t.i - 1)
        c2 == CharAt(seq2, t.j - 1)
        strayed(reads) == IF Undefined \in reads THEN "index" ELSE t.fault
    IN  IF move = DIAGONAL
        THEN [alignedSeq1 |-> Prepend(c1, t.alignedSeq1),
              alignedSeq2 |-> Prepend(c2, t.alignedSeq2),
              i |-> t.i - 1, j |-> t.j - 1, path |-> pushed,
              fault |-> strayed({move, c1, c2})]
        ELSE IF move = UP
        THEN [alignedSeq1 |-> Prepend(GapChar, t.alignedSeq1),
              alignedSeq2 |-> Prepend(c2, t.alignedSeq2),
              i |-> t.i - 1, j |-> t.j, path |-> pushed,
              fault |-> strayed({move, c2})]
        ELSE [alignedSeq1 |-> Prepend(c1, t.alignedSeq1),
              alignedSeq2 |-> Prepend(GapChar, t.alignedSeq2),
              i |-> t.i, j |-> t.j - 1, path |-> pushed,
              fault |-> strayed({move, c1})]

\* Step 3, one iteration of the traceback loop (shared by both engines):
\* t holds alignedSeq1, alignedSeq2, i, j and path.  t.fault tells what went
\* wrong so far: "index" once a read fell outside a sequence or a row (the
\* read yields undefined and the loop goes on), "TypeError" when trace[i]
\* does not exist (the engine throws).
TraceStep(t, trace, seq1, seq2) ==
    IF t.i \notin DOMAIN trace THEN [t EXCEPT !.fault = "TypeError"]
    ELSE
    LET move == GridAt(trace, t.i, t.j)
        pushed == Append(t.path, [row |-> t.i, col |-> t.j])
        c1 == CharAt(seq1, t.i - 1)
        c2 == CharAt(seq2, t.j - 1)
        strayed(reads) == IF Undefined \in reads THEN "index" ELSE t.fault
    IN  IF move = DIAGONAL
        THEN [alignedSeq1 |-> Prepend(c1, t.alignedSeq1),
              alignedSeq2 |-> Prepend(c2, t.alignedSeq2),
              i |-> t.i - 1, j |-> t.j - 1, path |-> pushed,
              fault |-> strayed({move, c1, c2})]
        ELSE IF move = UP
        THEN [alignedSeq1 |-> Prepend(c1, t.alignedSeq1),
              alignedSeq2 |-> Prepend(GapChar, t.alignedSeq2),
              i |-> t.i - 1, j |-> t.j, path |-> pushed,
              fault |-> strayed({move, c1})]
        ELSE [alignedSeq1 |-> Prepend(GapChar, t.alignedSeq1),
              alignedSeq2 |-> Prepend(c2, t.alignedSeq2),
              i |-> t.i, j |-> t.j - 1, path |-> pushed,
              fault |-> strayed({move, c2})]

\* the traceback variables before the loop
TraceStart(i, j) ==
    [alignedSeq1 |-> <<>>, alignedSeq2 |-> <<>>, i |-> i, j |-> j, path |-> <<>>,
     fault |-> "none"]

\* A traceback that stays inside the grids visits no cell twice, so a loop
\* that has pushed more cells than the grids hold never ends: it is cut
\* there with the fault "endless".
Endless(t, trace) == Len(t.path) > Cardinality(DOMAIN trace) * Cardinality(DOMAIN trace[0])
Stopped(t) == t.fault \in {"TypeError", "endless"}

\* the traceback loop without the final path.push({ row: 0, col: 0 })
RECURSIVE NWTraceback_NoOrigin(_, _, _, _)
NWTraceback_NoOrigin(t, trace, seq1, seq2) ==
    IF Stopped(t) THEN t
    ELSE IF Endless(t, trace) THEN [t EXCEPT !.fault = "endless"]
    ELSE IF t.i > 0 \/ t.j > 0
    THEN NWTraceback_NoOrigin(TraceStep(t, trace, seq1, seq2), trace, seq1, seq2)
    ELSE t

\* Step 3: while (i > 0 || j > 0) { ... }  path.push({ row: 0, col: 0 })
RECURSIVE NWTraceback(_, _, _, _)
NWTraceback(t, trace, seq1, seq2) ==
    IF Stopped(t) THEN t
    ELSE IF Endless(t, trace) THEN [t EXCEPT !.fault = "endless"]
    ELSE IF t.i > 0 \/ t.j > 0
    THEN NWTraceback(TraceStep(t, trace, seq1, seq2), trace, seq1, seq2)
    ELSE [t EXCEPT !.path = Append(t.path, [row |-> 0, col |-> 0])]

runNeedlemanWunsch(s1, s2, sc) ==
    LET n == Len(s1)
        m == Len(s2)
        g == NWFill(NWInit(n, m, sc), s1, s2, sc, 1, 1)
        t == NWTraceback(TraceStart(n, m), g.trace, s1, s2)
    IN  [alignedSeq1 |-> t.alignedSeq1, alignedSeq2 |-> t.alignedSeq2,
         identity |-> calculateIdentity(t.alignedSeq1, t.alignedSeq2),
         score |-> g.matrix[n][m], matrix |-> g.matrix, trace |-> g.trace,
         path |-> Reverse(t.path), seq1 |-> s1, seq2 |-> s2, scoring |-> sc,
         fault |-> t.fault]

(* --------------------------- runSmithWaterman -------------------------- *)
\* the running maximum started below every cell value
SWInit_NegativeMax(n, m) ==
    [matrix |-> NewGrid(n, m, 0), trace |-> NewGrid(n, m, STOP),
     maxScore |-> -1, maxI |-> 0, maxJ |-> 0]

\* Step 1: the grids and the running maximum before the loops
SWInit(n, m) ==
    [matrix |-> NewGrid(n, m, 0), trace |-> NewGrid(n, m, STOP),
     maxScore |-> 0, maxI |-> 0, maxJ |-> 0]

\* the inner loop's cell with the running maximum overwritten by every cell
SWCell_LastCell(g, seq1, seq2, scoring, i, j) ==
    LET matchScore == MatchScore(seq1, seq2, scoring, i, j)
        diagonal == g.matrix[i - 1][j - 1] + matchScore
        up == g.matrix[i - 1][j] + scoring.gap
        left == g.matrix[i][j - 1] + scoring.gap
        score == Max4(0, diagonal, up, left)
        move == IF score = 0 THEN STOP
                ELSE IF score = diagonal THEN DIAGONAL
                ELSE IF score = up THEN UP
                ELSE LEFT
    IN  [matrix |-> [g.matrix EXCEPT ![i][j] = score],
         trace |-> [g.trace EXCEPT ![i][j] = move],
         maxScore |-> score, maxI |-> i, maxJ |-> j]

\* the inner loop's cell with the score === 0 test made last: a candidate
\* that is 0 is recorded instead of STOP
SWCell_StopLast(g, seq1, seq2, scoring, i, j) ==
    LET matchScore == MatchScore(seq1, seq2, scoring, i, j)
        diagonal == g.matrix[i - 1][j - 1] + matchScore
        up == g.matrix[i - 1][j] + scoring.gap
        left == g.matrix[i][j - 1] + scoring.gap
        score == Max4(0, diagonal, up, left)
        isMax == score > g.maxScore
        move == IF score = diagonal THEN DIAGONAL
                ELSE IF score = up THEN UP
                ELSE IF score = left THEN LEFT
                ELSE STOP
    IN  [matrix |-> [g.matrix EXCEPT ![i][j] = score],
         trace |-> [g.trace EXCEPT ![i][j] = move],
         maxScore |-> IF isMax THEN score ELSE g.maxScore,
         maxI |-> IF isMax THEN i ELSE g.maxI,
         maxJ |-> IF isMax THEN j ELSE g.maxJ]

\* the inner loop's cell with score >= maxScore for score > maxScore: a tie
\* for the maximum moves the recorded cell to the later one
SWCell_LastTie(g, seq1, seq2, scoring, i, j) ==
    LET matchScore == MatchScore(seq1, seq2, scoring, i, j)
        diagonal == g.matrix[i - 1][j - 1] + matchScore
        up == g.matrix[i - 1][j] + scoring.gap
        left == g.matrix[i][j - 1] + scoring.gap
        score == Max4(0, diagonal, up, left)
        isMax == score >= g.maxScore
        move == IF score = 0 THEN STOP
                ELSE IF score = diagonal THEN DIAGONAL
                ELSE IF score = up THEN UP
                ELSE LEFT
    IN  [matrix |-> [g.matrix EXCEPT ![i][j] = score],
         trace |-> [g.trace EXCEPT ![i][j] = move],
         maxScore |-> IF isMax THEN score ELSE g.maxScore,
         maxI |-> IF isMax THEN i ELSE g.maxI,
         maxJ |-> IF isMax THEN j ELSE g.maxJ]

\* Step 2, one iteration of the inner loop: cell (i, j)
SWCell(g, seq1, seq2, scoring, i, j) ==
    LET matchScore == MatchScore(seq1, seq2, scoring, i, j)
        diagonal == g.matrix[i - 1][j - 1] + matchScore
        up == g.matrix[i - 1][j] + scoring.gap
        left == g.matrix[i][j - 1] + scoring.gap
        score == Max4(0, diagonal, up, left)
        isMax == score > g.maxScore
        move == IF score = 0 THEN STOP
                ELSE IF score = diagonal THEN DIAGONAL
                ELSE IF score = up THEN UP
                ELSE LEFT
    IN  [matrix |-> [g.matrix EXCEPT ![i][j] = score],
         trace |-> [g.trace EXCEPT ![i][j] = move],
         maxScore |-> IF isMax THEN score ELSE g.maxScore,
         maxI |-> IF isMax THEN i ELSE g.maxI,
         maxJ |-> IF isMax THEN j ELSE g.maxJ]

\* Step 2: the nested loops, from cell (i, j) on in row-major order
RECURSIVE SWFill(_, _, _, _, _, _)
SWFill(g, seq1, seq2, scoring, i, j) ==
    IF i > Len(seq1) THEN g
    ELSE IF j > Len(seq2) THEN SWFill(g, seq1, seq2, scoring, i + 1, 1)
    ELSE SWFill(SWCell(g, seq1, seq2, scoring, i, j), seq1, seq2, scoring, i, j + 1)

\* matrix[i][j] > 0 of the loop: it throws where matrix[i] does not exist
\* and is false where matrix[i][j] is undefined
Positive(matrix, i, j) ==
    i \in DOMAIN matrix /\ j \in DOMAIN matrix[i] /\ matrix[i][j] > 0

\* the traceback loop without the final path.push({ row: i, col: j })
RECURSIVE SWTraceback_NoFinalCell(_, _, _, _, _)
SWTraceback_NoFinalCell(t, matrix, trace, seq1, seq2) ==
    IF Stopped(t) THEN t
    ELSE IF Endless(t, trace) THEN [t EXCEPT !.fault = "endless"]
    ELSE IF t.i \notin DOMAIN matrix THEN [t EXCEPT !.fault = "TypeError"]
    ELSE IF Positive(matrix, t.i, t.j)
    THEN SWTraceback_NoFinalCell(TraceStep(t, trace, seq1, seq2), matrix, trace, seq1, seq2)
    ELSE t

\* Step 3: while (matrix[i][j] > 0) { ... }  path.push({ row: i, col: j })
RECURSIVE SWTraceback(_, _, _, _, _)
SWTraceback(t, matrix, trace, seq1, seq2) ==
    IF Stopped(t) THEN t
    ELSE IF Endless(t, trace) THEN [t EXCEPT !.fault = "endless"]
    ELSE IF t.i \notin DOMAIN matrix THEN [t EXCEPT !.fault = "TypeError"]
    ELSE IF Positive(matrix, t.i, t.j)
    THEN SWTraceback(TraceStep(t, trace, seq1, seq2), matrix, trace, seq1, seq2)
    ELSE [t EXCEPT !.path = Append(t.path, [row |-> t.i, col |-> t.j]),
                   !.fault = IF t.j \in DOMAIN matrix[t.i] THEN t.fault ELSE "index"]

runSmithWaterman(s1, s2, sc) ==
    LET n == Len(s1)
        m == Len(s2)
        g == SWFill(SWInit(n, m), s1, s2, sc, 1, 1)
        t == SWTraceback(TraceStart(g.maxI, g.maxJ), g.matrix, g.trace, s1, s2)
    IN  [alignedSeq1 |-> t.alignedSeq1, alignedSeq2 |-> t.alignedSeq2,
         identity |-> calculateIdentity(t.alignedSeq1, t.alignedSeq2),
         score |-> g.maxScore, matrix |-> g.matrix, trace |-> g.trace,
         path |-> Reverse(t.path), seq1 |-> s1, seq2 |-> s2, scoring |-> sc,
         fault |-> t.fault]

(* ---------------------- cleanSequence, parseFasta ---------------------- *)
(* Text is a sequence of one-character strings.                            *)
LowerCase == <<"a", "b", "c", "d", "e", "f", "g", "h", "i", "j", "k", "l", "m",
               "n", "o", "p", "q", "r", "s", "t", "u", "v", "w", "x", "y", "z">>
UpperCase == <<"A", "B", "C", "D", "E", "F", "G", "H", "I", "J", "K", "L", "M",
               "N", "O", "P", "Q", "R", "S", "T", "U", "V", "W", "X", "Y", "Z">>
NewLine == "\n"
\* the characters String.prototype.trim() strips that the model's texts use
WhiteSpace == {" ", "\t", "\r", NewLine}

\* the character class [a-z] alone: upper-case letters are stripped as well
IsLetter_LowerOnly(c) == \E k \in 1..26 : c = LowerCase[k]

\* the complement of the character class [^a-zA-Z]
IsLetter(c) == \E k \in 1..26 : c = LowerCase[k] \/ c = UpperCase[k]

\* toUpperCase() on one character of a string of ASCII letters
toUpperCase(c) ==
    IF \E k \in 1..26 : c = LowerCase[k]
    THEN UpperCase[CHOOSE k \in 1..26 : c = LowerCase[k]]
    ELSE c

\* seq.replace(/[^a-zA-Z]/g, '').toUpperCase()
cleanSequence(seq) ==
    LET kept == SelectSeq(seq, IsLetter)
    IN  [k \in 1..Len(kept) |-> toUpperCase(kept[k])]

\* fastaContent.split('\n'): the pieces between the newlines, the piece
\* being read in cur and the finished ones in done
RECURSIVE Split(_, _, _, _)
Split(content, k, cur, done) ==
    IF k > Len(content) THEN Append(done, cur)
    ELSE IF content[k] = NewLine THEN Split(content, k + 1, <<>>, Append(done, cur))
    ELSE Split(content, k + 1, Append(cur, content[k]), done)

\* line.startsWith('>')
IsHeader(line) == Len(line) > 0 /\ line[1] = ">"

\* .join('')
RECURSIVE Join(_)
Join(lines) == IF lines = <<>> THEN <<>> ELSE Head(lines) \o Join(Tail(lines))

\* .trim()
Trim(text) ==
    LET inked == {k \in 1..Len(text) : text[k] \notin WhiteSpace}
    IN  IF inked = {} THEN <<>>
        ELSE SubSeq(text, CHOOSE k \in inked : \A h \in inked : k <= h,
                          CHOOSE k \in inked : \A h \in inked : k >= h)

NotHeader(line) == ~IsHeader(line)

\* split('\n').filter(line => !line.startsWith('>')).join('').trim()
parseFasta(fastaContent) ==
    Trim(Join(SelectSeq(Split(fastaContent, 1, <<>>, <<>>), NotHeader)))

(* ---------------------------- state machine ---------------------------- *)
(* The engine is a pure function of (seq1, seq2, scoring); the state is    *)
(* the input of one invocation, the entry point invoked and what it        *)
(* returned.                                                               *)
VARIABLES seq1, seq2, scoring, engine, result,
          app,     \* the state of the App component (its useState cells)
          calls,   \* the handleAlign invocations waiting in their 200 ms delay
          norm     \* a text and the normaliser functions applied to it
vars == <<seq1, seq2, scoring, engine, result, app, calls, norm>>

\* error: string | null, the null
NoError == "null"
\* the message handleAlign throws for an empty cleaned sequence
EmptyMessage == "Both sequences must not be empty."
\* DEFAULT_SCORING of constants.ts: the scheme of the spec's scenarios
DEFAULT_SCORING == [match |-> 1, mismatch |-> -1, gap |-> -1]

\* the useState initial values, the two texts apart
AppStart(text1, text2) ==
    [seq1 |-> text1, seq2 |-> text2, algorithm |-> NeedlemanWunsch,
     scoring |-> DEFAULT_SCORING, result |-> NoResult, isLoading |-> FALSE,
     error |-> NoError]

\* no normaliser call: a text, the functions applied to it so far and the
\* value each returned
NormStart(text) == [text |-> text, fns |-> <<>>, values |-> <<>>]
NormIdle == NormStart(<<>>)

Init ==
    /\ \E p \in InputPairs : seq1 = p[1] /\ seq2 = p[2]
    /\ scoring \in Scoring
    /\ engine = "none"
    /\ result = NoResult
    /\ app = AppStart(<<>>, <<>>)
    /\ calls = <<>>
    /\ norm = NormIdle

RunNeedlemanWunsch ==
    /\ engine = "none"
    /\ engine' = NeedlemanWunsch
    /\ result' = runNeedlemanWunsch(seq1, seq2, scoring)
    /\ UNCHANGED <<seq1, seq2, scoring, app, calls, norm>>

RunSmithWaterman ==
    /\ engine = "none"
    /\ engine' = SmithWaterman
    /\ result' = runSmithWaterman(seq1, seq2, scoring)
    /\ UNCHANGED <<seq1, seq2, scoring, app, calls, norm>>

Next == RunNeedlemanWunsch \/ RunSmithWaterman

Spec == Init /\ [][Next]_vars

Global == engine = NeedlemanWunsch
Local == engine = SmithWaterman
Ran == engine # "none"

(* ------------------------------- App ----------------------------------- *)
(* The App component: its state cells, the controls that set them and      *)
(* handleAlign, which is asynchronous: everything before its await runs in *)
(* the click, the rest when the 200 ms timer fires.  Each invocation keeps *)
(* the seq1, seq2, algorithm and scoring of the render it was created in.  *)
(* At most MaxCalls invocations wait at a time.                            *)
(* seq1, seq2, scoring, engine and result hold the latest engine           *)
(* invocation: its arguments, its entry point and what it returned.        *)
MaxCalls == 1

\* what the user can put into a sequence box: nothing, a text without
\* letters, a text with one letter
RawTexts == { <<>>, <<"1">>, <<"a", " ">> }
AppScorings == {DEFAULT_SCORING, [match |-> 1, mismatch |-> 0, gap |-> 0]}

AppInit ==
    /\ \E t1 \in RawTexts, t2 \in RawTexts : app = AppStart(t1, t2)
    /\ calls = <<>>
    /\ seq1 = <<>> /\ seq2 = <<>>
    /\ scoring = DEFAULT_SCORING
    /\ engine = "none"
    /\ result = NoResult
    /\ norm = NormIdle

engineVars == <<seq1, seq2, scoring, engine, result>>

\* the textarea's onChange and the file input's onFileLoad of sequence 1
SetSeq1 ==
    /\ \E t \in RawTexts : app' = [app EXCEPT !.seq1 = t]
    /\ UNCHANGED <<engineVars, calls, norm>>

SetSeq2 ==
    /\ \E t \in RawTexts : app' = [app EXCEPT !.seq2 = t]
    /\ UNCHANGED <<engineVars, calls, norm>>

\* the Algorithm select (its third option is disabled)
SetAlgorithm ==
    /\ \E a \in {NeedlemanWunsch, SmithWaterman} : app' = [app EXCEPT !.algorithm = a]
    /\ UNCHANGED <<engineVars, calls, norm>>

\* the Match, Mismatch and Gap inputs and the Reset Scores button
SetScoring ==
    /\ \E sc \in AppScorings : app' = [app EXCEPT !.scoring = sc]
    /\ UNCHANGED <<engineVars, calls, norm>>

\* disabled={!seq1 || !seq2} of the Align Sequences button
AlignDisabled(a) == a.seq1 = <<>> \/ a.seq2 = <<>>

\* handleAlign up to its await; overlapped records that an earlier
\* invocation was still waiting when this one started
ClickAlign ==
    /\ ~AlignDisabled(app)
    /\ Len(calls) < MaxCalls
    /\ app' = [app EXCEPT !.isLoading = TRUE, !.error = NoError, !.result = NoResult]
    /\ calls' = Append(calls, [seq1 |-> app.seq1, seq2 |-> app.seq2,
                               algorithm |-> app.algorithm, scoring |-> app.scoring,
                               overlapped |-> calls # <<>>])
    /\ UNCHANGED <<engineVars, norm>>

\* the test of the cleaned second sequence left out
Rejected_FirstOnly(cleanedSeq1, cleanedSeq2) == cleanedSeq1 = <<>>

\* !cleanedSeq1 || !cleanedSeq2
Rejected(cleanedSeq1, cleanedSeq2) == cleanedSeq1 = <<>> \/ cleanedSeq2 = <<>>

\* handleAlign after its await, for the invocation c: the try block, the
\* catch and the finally.  Timers of equal delay fire in the order set.
Resume(c) ==
    LET cleanedSeq1 == cleanSequence(c.seq1)
        cleanedSeq2 == cleanSequence(c.seq2)
    IN  IF Rejected(cleanedSeq1, cleanedSeq2)
        THEN /\ app' = [app EXCEPT !.error = EmptyMessage, !.isLoading = FALSE]
             /\ UNCHANGED engineVars
        ELSE /\ seq1' = cleanedSeq1
             /\ seq2' = cleanedSeq2
             /\ scoring' = c.scoring
             /\ engine' = c.algorithm
             /\ result' = IF c.algorithm = NeedlemanWunsch
                          THEN runNeedlemanWunsch(cleanedSeq1, cleanedSeq2, c.scoring)
                          ELSE runSmithWaterman(cleanedSeq1, cleanedSeq2, c.scoring)
             /\ app' = [app EXCEPT !.result = result', !.isLoading = FALSE]

TimerFires ==
    /\ calls # <<>>
    /\ Resume(Head(calls))
    /\ calls' = Tail(calls)
    /\ UNCHANGED norm

\* the Clear button, disabled={isLoading}
HandleClear ==
    /\ ~app.isLoading
    /\ app' = [app EXCEPT !.seq1 = <<>>, !.seq2 = <<>>, !.result = NoResult,
                          !.error = NoError, !.scoring = DEFAULT_SCORING]
    /\ UNCHANGED <<engineVars, calls, norm>>

AppNext ==
    \/ SetSeq1 \/ SetSeq2 \/ SetAlgorithm \/ SetScoring
    \/ ClickAlign \/ TimerFires \/ HandleClear

AppSpec == AppInit /\ [][AppNext]_vars

(* ----------------------------- normaliser ------------------------------ *)
(* cleanSequence and parseFasta are pure: a text is drawn, then parseFasta *)
(* is applied to it (a file upload) or cleanSequence (handleAlign), and    *)
(* cleanSequence to what either returned.                                  *)
MaxTextLen == 4
TextChars == {"a", "C", "1", ">", " ", NewLine}
Texts == UNION { [1..l -> TextChars] : l \in 0..MaxTextLen }

NormInit ==
    /\ \E t \in Texts : norm = NormStart(t)
    /\ seq1 = <<>> /\ seq2 = <<>>
    /\ scoring = DEFAULT_SCORING
    /\ engine = "none"
    /\ result = NoResult
    /\ app = AppStart(<<>>, <<>>)
    /\ calls = <<>>

\* the text the next function is applied to
Current == IF norm.values = <<>> THEN norm.text ELSE norm.values[Len(norm.values)]

CleanSequence ==
    /\ Len(norm.fns) < 2
    /\ norm' = [norm EXCEPT !.fns = Append(@, "cleanSequence"),
                            !.values = Append(@, cleanSequence(Current))]
    /\ UNCHANGED <<engineVars, app, calls>>

ParseFasta ==
    /\ norm.fns = <<>>
    /\ norm' = [norm EXCEPT !.fns = Append(@, "parseFasta"),
                            !.values = Append(@, parseFasta(Current))]
    /\ UNCHANGED <<engineVars, app, calls>>

NormNext == CleanSequence \/ ParseFasta

NormSpec == NormInit /\ [][NormNext]_vars

(* ======================= properties of the engine ====================== *)
n == Len(seq1)
m == Len(seq2)
Cells == (0..n) \X (0..m)
Interior == (1..n) \X (1..m)
Max3(a, b, c) == CHOOSE x \in {a, b, c} : \A y \in {a, b, c} : x >= y
\* the score of aligning seq1[i-1] with seq2[j-1] (1-based TLA+ indices i, j)
PairScore(a, b, i, j) == IF a[i] = b[j] THEN scoring.match ELSE scoring.mismatch
HasGap(s) == \E k \in 1..Len(s) : s[k] = GapChar

\* C1: in both modes alignedSeq1 and alignedSeq2 have the same length, and
\* that length is path.length - 1.
C1_AlignedLengths ==
    Ran => /\ Len(result.alignedSeq1) = Len(result.alignedSeq2)
           /\ Len(result.alignedSeq1) = Len(result.path) - 1

\* a local alignment of three columns, one of them a gap
C1_Witness ==
    /\ Local
    /\ Len(result.alignedSeq1) = 3
    /\ Len(result.path) = 4
    /\ HasGap(result.alignedSeq2)

\* C4: the local score is >= 0 and is the largest value in the matrix; when
\* no cell is positive the score is 0, both aligned strings are empty and
\* the path is exactly one cell.
C4_LocalScore ==
    Local =>
        /\ result.score >= 0
        /\ \E c \in Cells : result.matrix[c[1]][c[2]] = result.score
        /\ \A c \in Cells : result.matrix[c[1]][c[2]] <= result.score
        /\ (\A c \in Cells : result.matrix[c[1]][c[2]] <= 0) =>
              /\ result.score = 0
              /\ result.alignedSeq1 = <<>>
              /\ result.alignedSeq2 = <<>>
              /\ Len(result.path) = 1

\* a local run over two non-empty sequences in which no cell is positive
C4_Witness ==
    /\ Local
    /\ n >= 2 /\ m >= 2
    /\ \A c \in Cells : result.matrix[c[1]][c[2]] = 0
    /\ result.path = <<[row |-> 0, col |-> 0]>>

\* C7: in global mode every interior cell holds max(diagonal, up, left) and
\* its move is DIAGONAL when diagonal >= up and diagonal >= left, otherwise
\* UP when up >= left, otherwise LEFT; it is never STOP.
C7_GlobalRecurrence ==
    Global =>
        \A c \in Interior :
            LET i == c[1]
                j == c[2]
                diagonal == result.matrix[i - 1][j - 1] + PairScore(seq1, seq2, i, j)
                up == result.matrix[i - 1][j] + scoring.gap
                left == result.matrix[i][j - 1] + scoring.gap
            IN  /\ result.matrix[i][j] = Max3(diagonal, up, left)
                /\ result.trace[i][j] =
                      IF diagonal >= up /\ diagonal >= left THEN DIAGONAL
                      ELSE IF up >= left THEN UP
                      ELSE LEFT
                /\ result.trace[i][j] # STOP

\* a global matrix with a cell where diagonal ties with up and with left and
\* DIAGONAL is recorded, and a cell where up ties with left and UP is recorded
C7_Witness ==
    /\ Global
    /\ \E c \in Interior :
          /\ result.matrix[c[1] - 1][c[2] - 1] + PairScore(seq1, seq2, c[1], c[2])
                = result.matrix[c[1] - 1][c[2]] + scoring.gap
          /\ result.matrix[c[1] - 1][c[2]] = result.matrix[c[1]][c[2] - 1]
          /\ result.trace[c[1]][c[2]] = DIAGONAL
    /\ \E c \in Interior :
          /\ result.matrix[c[1] - 1][c[2]] = result.matrix[c[1]][c[2] - 1]
          /\ result.trace[c[1]][c[2]] = UP

\* C8: in global mode matrix[i][0] = i * gap with trace[i][0] = UP for
\* 1 <= i <= n, matrix[0][j] = j * gap with trace[0][j] = LEFT for
\* 1 <= j <= m, and matrix[0][0] = 0.
C8_GlobalBoundary ==
    Global =>
        /\ \A i \in 1..n : /\ result.matrix[i][0] = i * scoring.gap
                           /\ result.trace[i][0] = UP
        /\ \A j \in 1..m : /\ result.matrix[0][j] = j * scoring.gap
                           /\ result.trace[0][j] = LEFT
        /\ result.matrix[0][0] = 0

\* a global run with a non-zero gap value and both boundaries of length >= 2
C8_Witness ==
    /\ Global
    /\ scoring.gap # 0
    /\ n >= 2 /\ m >= 2
    /\ result.matrix[n][0] = n * scoring.gap
    /\ result.matrix[0][m] = m * scoring.gap

\* the cells visited by following trace from (i, j) until a STOP cell
RECURSIVE Replay(_, _, _)
Replay(trace, i, j) ==
    <<[row |-> i, col |-> j]>> \o
        (IF trace[i][j] = DIAGONAL THEN Replay(trace, i - 1, j - 1)
         ELSE IF trace[i][j] = UP THEN Replay(trace, i - 1, j)
         ELSE IF trace[i][j] = LEFT THEN Replay(trace, i, j - 1)
         ELSE <<>>)

\* C9: in both modes, following the returned trace from the last cell of
\* path until a STOP cell visits exactly the cells of path in reverse order,
\* the STOP cell being path[0].
C9_ReplayTrace ==
    Ran =>
        LET path == result.path
            last == path[Len(path)]
            replay == Replay(result.trace, last.row, last.col)
        IN  /\ Len(replay) = Len(path)
            /\ \A k \in 1..Len(path) : replay[k] = path[Len(path) + 1 - k]
            /\ result.trace[path[1].row][path[1].col] = STOP

\* a global run whose path uses all three moves
C9_Witness ==
    /\ Global
    /\ Len(result.path) >= 4
    /\ \E k \in 1..Len(result.path) :
          result.trace[result.path[k].row][result.path[k].col] = DIAGONAL
    /\ \E k \in 1..Len(result.path) :
          result.trace[result.path[k].row][result.path[k].col] = UP
    /\ \E k \in 1..Len(result.path) :
          result.trace[result.path[k].row][result.path[k].col] = LEFT

\* C10: in both modes matrix and trace have exactly len(seq1)+1 rows of
\* len(seq2)+1 columns, and trace[0][0] = STOP.
C10_Dimensions ==
    Ran =>
        /\ DOMAIN result.matrix = 0..n
        /\ DOMAIN result.trace = 0..n
        /\ \A i \in 0..n : /\ DOMAIN result.matrix[i] = 0..m
                           /\ DOMAIN result.trace[i] = 0..m
        /\ result.trace[0][0] = STOP

\* a local run over sequences of different lengths
C10_Witness ==
    /\ Local
    /\ n = 2 /\ m = 1
    /\ DOMAIN result.trace = 0..2
    /\ DOMAIN result.trace[2] = 0..1

(* ---- optimal scores by enumeration of all gapped alignments ---- *)
\* An alignment of a with b is a sequence of columns: "D" pairs the next
\* character of a with the next of b, "U" pairs the next character of a with
\* a gap, "L" a gap with the next character of b; it consumes all of both.
MaxInputLen == CHOOSE k \in 0..(MaxLen + 4) :
                  /\ \A p \in InputPairs : Len(p[1]) <= k /\ Len(p[2]) <= k
                  /\ \E p \in InputPairs : Len(p[1]) = k \/ Len(p[2]) = k

RECURSIVE AlignmentsOf(_, _)
AlignmentsOf(la, lb) ==
    IF la = 0 /\ lb = 0 THEN {<<>>}
    ELSE (IF la > 0 /\ lb > 0
          THEN {Append(x, "D") : x \in AlignmentsOf(la - 1, lb - 1)} ELSE {})
         \cup (IF la > 0 THEN {Append(x, "U") : x \in AlignmentsOf(la - 1, lb)} ELSE {})
         \cup (IF lb > 0 THEN {Append(x, "L") : x \in AlignmentsOf(la, lb - 1)} ELSE {})

\* all alignments of a string of length la with one of length lb
Alignments == [la \in 0..MaxInputLen, lb \in 0..MaxInputLen |-> AlignmentsOf(la, lb)]

\* the sum of the scores of columns k.. of alignment x of a with b, the
\* columns before k having consumed i characters of a and j of b
RECURSIVE ColumnSum(_, _, _, _, _, _)
ColumnSum(x, a, b, k, i, j) ==
    IF k > Len(x) THEN 0
    ELSE IF x[k] = "D"
         THEN PairScore(a, b, i + 1, j + 1) + ColumnSum(x, a, b, k + 1, i + 1, j + 1)
    ELSE IF x[k] = "U"
         THEN scoring.gap + ColumnSum(x, a, b, k + 1, i + 1, j)
    ELSE scoring.gap + ColumnSum(x, a, b, k + 1, i, j + 1)

AlignmentScores(a, b) ==
    {ColumnSum(x, a, b, 1, 0, 0) : x \in Alignments[Len(a), Len(b)]}

SetMax(S) == CHOOSE x \in S : \A y \in S : x >= y

\* the best score of an alignment that consumes all of a and all of b
OptimalScore(a, b) == SetMax(AlignmentScores(a, b))

\* C2: in global mode the returned score is the maximum, over all gapped
\* alignments that consume all of seq1 and all of seq2, of the sum of the
\* per-column scores.
C2_GlobalOptimal ==
    Global => result.score = OptimalScore(seq1, seq2)

\* the spec's scenario: (1,-1,-1), "ACGT" vs "AC" gives "ACGT"/"AC--", score 0
C2_Witness ==
    /\ Global
    /\ scoring = [match |-> 1, mismatch |-> -1, gap |-> -1]
    /\ seq1 = <<"A", "C", "G", "T">> /\ seq2 = <<"A", "C">>
    /\ result.alignedSeq1 = <<"A", "C", "G", "T">>
    /\ result.alignedSeq2 = <<"A", "C", "-", "-">>
    /\ result.score = 0

\* the contiguous substrings of s (the empty one included)
Substrings(s) == {SubSeq(s, lo, hi) : lo \in 1..(Len(s) + 1), hi \in 0..Len(s)}

\* the highest optimal-alignment score over all pairs of contiguous
\* substrings of a and b; the empty pair scores 0
BestLocalScore(a, b) ==
    SetMax({OptimalScore(x, y) : x \in Substrings(a), y \in Substrings(b)})

\* C3 as stated: for every scoring scheme of signed integers the local score
\* is the highest optimal-alignment score over all substring pairs.
C3_LocalOptimalAnySign ==
    Local => result.score = BestLocalScore(seq1, seq2)

\* C3: for every scoring scheme whose gap value is <= 0 (match and mismatch
\* of any sign) the local score is the highest optimal-alignment score over
\* all pairs of contiguous substrings of seq1 and seq2, the empty pair
\* counting as 0.
C3_LocalOptimal ==
    (Local /\ scoring.gap <= 0) => result.score = BestLocalScore(seq1, seq2)

\* a local run under a gap penalty whose best substring pair is a proper part
\* of the inputs: "ACGT" on "AC" yields "AC" on "AC", which scores more than
\* any alignment of the whole strings
C3_Witness ==
    /\ Local
    /\ scoring.gap < 0
    /\ seq1 = <<"A", "C", "G", "T">> /\ seq2 = <<"A", "C">>
    /\ result.alignedSeq1 = <<"A", "C">> /\ result.alignedSeq2 = <<"A", "C">>
    /\ result.score = BestLocalScore(seq1, seq2)
    /\ result.score > OptimalScore(seq1, seq2)

\* the double 100 = 1100100b * 2^46 * 2^-46
F100 == [mant |-> <<100 * (2 ^ 10), 0, 0>>, exp |-> 7 - MantBits]

\* C5 as stated: for every scoring scheme whose match is +1, global alignment
\* of a sequence with itself returns score n and identity 100.
C5_SelfAlignmentAnyScheme ==
    (Global /\ seq1 = seq2 /\ scoring.match = 1) =>
        /\ result.score = n
        /\ result.identity = F100

\* C5: for every n >= 1 and every scoring scheme with match = +1,
\* mismatch <= 1 and gap <= 0, global alignment of any sequence of length n
\* with an equal sequence returns score n and identity 100 (for n = 0 the
\* score is 0 and the identity 0).
C5_SelfAlignment ==
    (Global /\ seq1 = seq2 /\ scoring.match = 1
            /\ scoring.mismatch <= 1 /\ scoring.gap <= 0) =>
        /\ result.score = n
        /\ result.identity = IF n >= 1 THEN F100 ELSE FZero

\* a sequence of two different characters aligned with itself where a
\* mismatch scores as much as a match and a gap costs nothing
C5_Witness ==
    /\ Global
    /\ seq1 = seq2 /\ n = MaxLen
    /\ \E k \in 2..n : seq1[k] # seq1[1]
    /\ scoring = [match |-> 1, mismatch |-> 1, gap |-> 0]
    /\ result.score = n
    /\ result.identity = F100
    /\ result.alignedSeq1 = seq1

(* ---- exact comparisons of doubles with integers ---- *)
(* Naturals too large for an integer are sequences of limbs below          *)
(* LimbBase, the least significant first.                                  *)
\* the limbs of (significand + d) * k, for a double x, -2 <= d <= 2, k >= 1
ProductLimbs(x, d, k) ==
    LET l == (x.mant[3] + d) % LimbBase
        mid == x.mant[2] + ((x.mant[3] + d) \div LimbBase)
        md == mid % LimbBase
        h == x.mant[1] + (mid \div LimbBase)
        pl == l * k
        pm == md * k + (pl \div LimbBase)
        ph == h * k + (pm \div LimbBase)
    IN  <<pl % LimbBase, pm % LimbBase, ph % LimbBase, ph \div LimbBase>>

\* the limbs of v * 2^s, for naturals v < 2^13 and s
ShiftedLimbs(v, s) ==
    [k \in 1..(s \div LimbBits) |-> 0]
        \o <<(v * (2 ^ (s % LimbBits))) % LimbBase, (v * (2 ^ (s % LimbBits))) \div LimbBase>>

LimbAt(a, k) == IF k <= Len(a) THEN a[k] ELSE 0
LimbsEq(a, b) == \A k \in 1..(Len(a) + Len(b)) : LimbAt(a, k) = LimbAt(b, k)
LimbsLeq(a, b) ==
    \/ LimbsEq(a, b)
    \/ \E k \in 1..(Len(a) + Len(b)) :
          /\ LimbAt(a, k) < LimbAt(b, k)
          /\ \A h \in (k + 1)..(Len(a) + Len(b)) : LimbAt(a, h) = LimbAt(b, h)

\* x * k = v exactly, for a double x and naturals k, v
FTimesEq(x, k, v) ==
    IF x = FZero \/ k = 0 THEN v = 0
    ELSE x.exp <= 0 /\ LimbsEq(ProductLimbs(x, 0, k), ShiftedLimbs(v, 0 - x.exp))

\* (x - d ulp) * k <= v <= (x + d ulp) * k, for a double x and naturals k, v
FTimesNear(x, k, v, d) ==
    IF x = FZero \/ k = 0 THEN v = 0
    ELSE /\ x.exp <= 0
         /\ LimbsLeq(ProductLimbs(x, 0 - d, k), ShiftedLimbs(v, 0 - x.exp))
         /\ LimbsLeq(ShiftedLimbs(v, 0 - x.exp), ProductLimbs(x, d, k))

\* x <= v, for a double x and a natural v
FLeq(x, v) ==
    \/ x = FZero
    \/ x.exp <= 0 /\ LimbsLeq(ProductLimbs(x, 0, 1), ShiftedLimbs(v, 0 - x.exp))

\* the positions at which both aligned strings hold the same character and
\* that character is not '-'
Matches ==
    Cardinality({k \in 1..Len(result.alignedSeq1) :
                    /\ k <= Len(result.alignedSeq2)
                    /\ result.alignedSeq1[k] = result.alignedSeq2[k]
                    /\ result.alignedSeq1[k] # GapChar})
AlignmentLength == Len(result.alignedSeq1)

\* C6 as stated: identity * alignmentLength = 100 * matches, identity is 0
\* when the alignment length is 0, and identity is within [0, 100].
C6_IdentityExact ==
    Ran => /\ FTimesEq(result.identity, AlignmentLength, 100 * Matches)
           /\ AlignmentLength = 0 => result.identity = FZero
           /\ FLeq(result.identity, 100)

\* C6: identity is (matches / alignmentLength) * 100 in double arithmetic:
\* identity * alignmentLength is within 2 units in the last place of
\* identity times alignmentLength of 100 * matches, and equals it when
\* matches is 0 or equals alignmentLength; identity is 0 when the alignment
\* length is 0, and identity is within [0, 100].
C6_IdentityRounded ==
    Ran => /\ FTimesNear(result.identity, AlignmentLength, 100 * Matches, 2)
           /\ (Matches = 0 \/ Matches = AlignmentLength) =>
                 FTimesEq(result.identity, AlignmentLength, 100 * Matches)
           /\ AlignmentLength = 0 => result.identity = FZero
           /\ FLeq(result.identity, 100)

\* an alignment of three columns of which exactly one is a match, so that
\* identity is the rounded (1 / 3) * 100
C6_Witness ==
    /\ Ran
    /\ AlignmentLength = 3
    /\ Matches = 1
    /\ HasGap(result.alignedSeq1)
    /\ result.identity = FMul(FDiv(1, 3), 100)
    /\ ~FTimesEq(result.identity, 3, 100)

(* --------------------------- the local fill ---------------------------- *)
\* the three candidates of cell (i, j), read from the returned matrix
DiagonalOf(i, j) == result.matrix[i - 1][j - 1] + PairScore(seq1, seq2, i, j)
UpOf(i, j) == result.matrix[i - 1][j] + scoring.gap
LeftOf(i, j) == result.matrix[i][j - 1] + scoring.gap

\* C15: in local mode every cell of row 0 and column 0 is 0 with move STOP;
\* every interior cell holds max(0, diagonal, up, left); its move is STOP
\* exactly when its value is 0, and otherwise DIAGONAL if the value equals
\* diagonal, else UP if it equals up, else LEFT.
C15_LocalRecurrence ==
    Local =>
        /\ \A c \in Cells \ Interior :
              result.matrix[c[1]][c[2]] = 0 /\ result.trace[c[1]][c[2]] = STOP
        /\ \A c \in Interior :
              LET i == c[1]
                  j == c[2]
                  value == result.matrix[i][j]
                  move == result.trace[i][j]
              IN  /\ value >= 0
                  /\ value >= DiagonalOf(i, j) /\ value >= UpOf(i, j) /\ value >= LeftOf(i, j)
                  /\ value \in {0, DiagonalOf(i, j), UpOf(i, j), LeftOf(i, j)}
                  /\ (move = STOP) <=> (value = 0)
                  /\ value > 0 =>
                        move = IF value = DiagonalOf(i, j) THEN DIAGONAL
                               ELSE IF value = UpOf(i, j) THEN UP
                               ELSE LEFT

\* a local run with a cell that is 0 and STOP although its diagonal
\* candidate is 0 too, and a positive cell where diagonal ties with up
C15_Witness ==
    /\ Local
    /\ \E c \in Interior :
          /\ result.matrix[c[1]][c[2]] = 0
          /\ DiagonalOf(c[1], c[2]) = 0
          /\ result.trace[c[1]][c[2]] = STOP
    /\ \E c \in Interior :
          /\ result.matrix[c[1]][c[2]] > 0
          /\ DiagonalOf(c[1], c[2]) = UpOf(c[1], c[2])
          /\ result.trace[c[1]][c[2]] = DIAGONAL

(* ---------------------- the local traceback start --------------------- *)
\* row-major order of the cells, as the nested fill loops visit them
Earlier(c, d) == c[1] < d[1] \/ (c[1] = d[1] /\ c[2] < d[2])
ValueOf(c) == result.matrix[c[1]][c[2]]
MaxCells == {c \in Cells : \A d \in Cells : ValueOf(d) <= ValueOf(c)}
FirstMaxCell == CHOOSE c \in MaxCells : \A d \in MaxCells : d = c \/ Earlier(c, d)
LastOfPath == <<result.path[Len(result.path)].row, result.path[Len(result.path)].col>>

\* C16: in local mode the traceback starts at the cell that is first in
\* row-major order among all cells holding the matrix maximum: the last
\* element of the returned path is that cell, and when score > 0 no cell
\* earlier in row-major order holds a value >= score.
C16_FirstMaximum ==
    Local =>
        /\ LastOfPath = FirstMaxCell
        /\ result.score > 0 =>
              \A c \in Cells : Earlier(c, LastOfPath) => ValueOf(c) < result.score

\* a local run whose positive maximum is held by two cells; the path ends at
\* the earlier one
C16_Witness ==
    /\ Local
    /\ result.score > 0
    /\ \E c \in Cells : /\ Earlier(LastOfPath, c)
                        /\ ValueOf(c) = result.score
    /\ ValueOf(LastOfPath) = result.score

(* ----------------------------- the paths ------------------------------ *)
PathLen == Len(result.path)
Larger(a, b) == IF a >= b THEN a ELSE b
\* cell k + 1 of the path is one traceback move after cell k
StepsForward(k) ==
    LET a == result.path[k]
        b == result.path[k + 1]
    IN  <<b.row - a.row, b.col - a.col>> \in {<<1, 1>>, <<1, 0>>, <<0, 1>>}

\* C17: in global mode the returned path has (0,0) as its first element and
\* (n,m) as its last, each consecutive pair of cells differs by exactly
\* (+1,+1), (+1,0) or (0,+1), and path.length lies between max(n,m)+1 and
\* n+m+1.
C17_GlobalPath ==
    Global =>
        /\ PathLen >= 1
        /\ result.path[1] = [row |-> 0, col |-> 0]
        /\ result.path[PathLen] = [row |-> n, col |-> m]
        /\ \A k \in 1..(PathLen - 1) : StepsForward(k)
        /\ PathLen >= Larger(n, m) + 1
        /\ PathLen <= n + m + 1

\* a global run of two non-empty sequences of different lengths whose path
\* takes a diagonal step and a gap step
C17_Witness ==
    /\ Global
    /\ n >= 1 /\ m >= 1 /\ n # m
    /\ result.path[1] = [row |-> 0, col |-> 0]
    /\ result.path[PathLen] = [row |-> n, col |-> m]
    /\ PathLen = Larger(n, m) + 1
    /\ \E k \in 1..(PathLen - 1) :
          result.path[k + 1].row = result.path[k].row + 1
          /\ result.path[k + 1].col = result.path[k].col + 1
    /\ \E k \in 1..(PathLen - 1) :
          result.path[k + 1].row = result.path[k].row + 1
          /\ result.path[k + 1].col = result.path[k].col

\* C18: in local mode the first element of the returned path is a cell
\* whose matrix value is 0 and whose move is STOP, every other path element
\* has a strictly positive matrix value, and the last element holds the
\* value score.
C18_LocalPath ==
    Local =>
        /\ PathLen >= 1
        /\ result.matrix[result.path[1].row][result.path[1].col] = 0
        /\ result.trace[result.path[1].row][result.path[1].col] = STOP
        /\ \A k \in 2..PathLen :
              result.matrix[result.path[k].row][result.path[k].col] > 0
        /\ result.matrix[result.path[PathLen].row][result.path[PathLen].col] = result.score

\* a local run with a positive score whose path starts at a STOP cell and
\* climbs through two positive cells to the maximum
C18_Witness ==
    /\ Local
    /\ PathLen = 3
    /\ result.score > 1
    /\ result.trace[result.path[1].row][result.path[1].col] = STOP
    /\ result.matrix[result.path[2].row][result.path[2].col] > 0
    /\ result.matrix[result.path[3].row][result.path[3].col] = result.score

(* ------------------------ the aligned strings ------------------------- *)
\* s with every '-' deleted
Ungapped(s) == SelectSeq(s, LAMBDA c : c # GapChar)
FirstOfPath == result.path[1]
EndOfPath == result.path[PathLen]

\* C19: deleting every '-' from alignedSeq1 and from alignedSeq2 yields, in
\* global mode, exactly seq1 and seq2; in local mode, exactly the contiguous
\* substrings seq1[r0..r1) and seq2[c0..c1) where (r0,c0) is the first and
\* (r1,c1) the last cell of path; and no alignment column holds '-' in both
\* strings.
C19_UngappedStrings ==
    Ran =>
        /\ Global => /\ Ungapped(result.alignedSeq1) = seq1
                     /\ Ungapped(result.alignedSeq2) = seq2
        /\ Local => /\ PathLen >= 1
                    /\ Ungapped(result.alignedSeq1)
                          = SubSeq(seq1, FirstOfPath.row + 1, EndOfPath.row)
                    /\ Ungapped(result.alignedSeq2)
                          = SubSeq(seq2, FirstOfPath.col + 1, EndOfPath.col)
        /\ Len(result.alignedSeq1) = Len(result.alignedSeq2)
        /\ \A k \in 1..Len(result.alignedSeq1) :
              ~(result.alignedSeq1[k] = GapChar /\ result.alignedSeq2[k] = GapChar)

\* a local run that aligns a proper substring of seq1 which does not start
\* at its first character
C19_Witness ==
    /\ Local
    /\ PathLen >= 2
    /\ FirstOfPath.row >= 1
    /\ Ungapped(result.alignedSeq1) = SubSeq(seq1, FirstOfPath.row + 1, EndOfPath.row)
    /\ Ungapped(result.alignedSeq1) # seq1
    /\ Ungapped(result.alignedSeq1) # <<>>

\* one column of the returned alignment, scored as the fill scores a move
ColumnScore(k) ==
    IF result.alignedSeq1[k] = GapChar \/ result.alignedSeq2[k] = GapChar
    THEN scoring.gap
    ELSE IF result.alignedSeq1[k] = result.alignedSeq2[k] THEN scoring.match
    ELSE scoring.mismatch
RECURSIVE SumOfColumns(_)
SumOfColumns(k) == IF k = 0 THEN 0 ELSE SumOfColumns(k - 1) + ColumnScore(k)

\* C20: in both modes the returned score equals the score recomputed from
\* the returned aligned strings: the sum over alignment columns of gap when
\* either character is '-', match when the two characters are equal, and
\* mismatch otherwise.
C20_ScoreOfAlignment ==
    Ran =>
        /\ Len(result.alignedSeq1) = Len(result.alignedSeq2)
        /\ result.score = SumOfColumns(Len(result.alignedSeq1))

\* a run with a score other than 0 whose alignment holds a gap column and a
\* match column
C20_Witness ==
    /\ Ran
    /\ result.score # 0
    /\ result.score = SumOfColumns(Len(result.alignedSeq1))
    /\ \E k \in 1..Len(result.alignedSeq1) : result.alignedSeq2[k] = GapChar
    /\ \E k \in 1..Len(result.alignedSeq1) :
          result.alignedSeq1[k] # GapChar /\ result.alignedSeq1[k] = result.alignedSeq2[k]

(* ---------------------- properties of the normaliser ------------------- *)
Letters == {LowerCase[k] : k \in 1..26} \cup {UpperCase[k] : k \in 1..26}
\* the characters of text at the positions P, in their order
Pick(text, P) ==
    [k \in 1..Cardinality(P) |-> text[CHOOSE p \in P : Cardinality({q \in P : q <= p}) = k]]

CasePairs == {<<LowerCase[k], UpperCase[k]>> : k \in 1..26}
Capitals == {UpperCase[k] : k \in 1..26}
Capital(c) ==
    IF \E pr \in CasePairs : pr[1] = c THEN (CHOOSE pr \in CasePairs : pr[1] = c)[2] ELSE c
Capitalised(text) == [k \in 1..Len(text) |-> Capital(text[k])]

LetterPositions(text) == {p \in 1..Len(text) : text[p] \in Letters}
\* the position at which the line holding position p starts
LineStart(text, p) ==
    CHOOSE q \in 1..p : /\ q = 1 \/ text[q - 1] = NewLine
                        /\ \A h \in q..(p - 1) : text[h] # NewLine
\* the positions of text that lie in a line not starting with '>'
BodyPositions(text) ==
    {p \in 1..Len(text) : text[p] # NewLine /\ text[LineStart(text, p)] # ">"}
\* the body positions between the first and last one that is not white space
TrimmedPositions(text) ==
    LET B == BodyPositions(text)
        ink == {p \in B : text[p] \notin WhiteSpace}
    IN  {p \in B : (\E q \in ink : q <= p) /\ (\E q \in ink : q >= p)}

\* C14: cleanSequence returns only upper-case letters A-Z, namely the
\* letters of its input in their order, upper-cased, and applying it again
\* changes nothing; parseFasta returns the characters of the lines that do
\* not start with '>', in their order, without the newlines and trimmed, so
\* cleanSequence(parseFasta(x)) is made of the letters of those lines alone.
C14_Normaliser ==
    /\ (Len(norm.fns) >= 1 /\ norm.fns[1] = "cleanSequence") =>
          /\ \A k \in 1..Len(norm.values[1]) : norm.values[1][k] \in Capitals
          /\ norm.values[1] = Capitalised(Pick(norm.text, LetterPositions(norm.text)))
    /\ norm.fns = <<"cleanSequence", "cleanSequence">> =>
          norm.values[2] = norm.values[1]
    /\ (Len(norm.fns) >= 1 /\ norm.fns[1] = "parseFasta") =>
          norm.values[1] = Pick(norm.text, TrimmedPositions(norm.text))
    /\ norm.fns = <<"parseFasta", "cleanSequence">> =>
          /\ \A k \in 1..Len(norm.values[2]) : norm.values[2][k] \in Capitals
          /\ norm.values[2] = Capitalised(Pick(norm.text,
                 LetterPositions(norm.text) \cap BodyPositions(norm.text)))

\* a header line with a letter, then a body line with a lower-case letter:
\* only the body letter is left, upper-cased
C14_Witness ==
    /\ norm.text = <<">", "C", NewLine, "a">>
    /\ norm.fns = <<"parseFasta", "cleanSequence">>
    /\ norm.values = << <<"a">>, <<"A">> >>

(* ----------------------- totality of the engine ------------------------ *)
\* the cell the traceback loop handled k-th from the end of the path: every
\* path element but the first, which is pushed after the loop
Handled == 2..Len(result.path)
MoveOf(cell) == result.trace[cell.row][cell.col]
InputChars == {seq1[k] : k \in 1..Len(seq1)} \cup {seq2[k] : k \in 1..Len(seq2)}

\* C12: both entry points are total.  For every pair of sequences (empty
\* ones included) and every scoring scheme the traceback ends without a
\* fault after at most n + m iterations, every cell it visits lies in the
\* grids, a cell it handles as DIAGONAL has row >= 1 and column >= 1, as UP
\* row >= 1, as LEFT column >= 1 (so seq1[i-1] and seq2[j-1] exist), the
\* aligned strings hold only input characters and '-', and the fill has
\* left an integer and a move in every cell.
C12_Total ==
    Ran =>
        /\ result.fault = "none"
        /\ Len(result.path) <= n + m + 1
        /\ \A k \in 1..Len(result.path) :
              result.path[k].row \in 0..n /\ result.path[k].col \in 0..m
        /\ DOMAIN result.matrix = 0..n /\ DOMAIN result.trace = 0..n
        /\ \A k \in Handled :
              LET cell == result.path[k]
              IN  /\ MoveOf(cell) \in {DIAGONAL, UP} => cell.row >= 1
                  /\ MoveOf(cell) \in {DIAGONAL, LEFT, STOP} => cell.col >= 1
        /\ \A k \in 1..Len(result.alignedSeq1) :
              result.alignedSeq1[k] \in InputChars \cup {GapChar}
        /\ \A k \in 1..Len(result.alignedSeq2) :
              result.alignedSeq2[k] \in InputChars \cup {GapChar}
        /\ \A c \in Cells : result.matrix[c[1]][c[2]] \in Int
                            /\ result.trace[c[1]][c[2]] \in Move

\* a global run on an empty first sequence: the traceback walks row 0
C12_Witness ==
    /\ Global
    /\ n = 0 /\ m = 2
    /\ result.fault = "none"
    /\ result.alignedSeq1 = <<GapChar, GapChar>>
    /\ result.alignedSeq2 = seq2
    /\ Len(result.path) = 3

(* ------------------- sequences that share no character ---------------- *)
Chars(s) == {s[k] : k \in 1..Len(s)}
UsualScoring == [match |-> 1, mismatch |-> -1, gap |-> -1]

\* C13: under (match, mismatch, gap) = (+1, -1, -1), global alignment of two
\* sequences of equal length n that share no character records DIAGONAL at
\* every interior cell and returns the inputs unchanged as the aligned
\* strings, with score -n and identity 0.
C13_NoSharedCharacter ==
    (Global /\ scoring = UsualScoring /\ n = m /\ Chars(seq1) \cap Chars(seq2) = {}) =>
        /\ \A c \in Interior : result.trace[c[1]][c[2]] = DIAGONAL
        /\ result.alignedSeq1 = seq1
        /\ result.alignedSeq2 = seq2
        /\ result.score = 0 - n
        /\ result.identity = FZero

\* the spec's scenario: "AC" vs "GT" gives "AC"/"GT", score -2
C13_Witness ==
    /\ Global
    /\ scoring = UsualScoring
    /\ seq1 = <<"A", "C">> /\ seq2 = <<"G", "T">>
    /\ result.alignedSeq1 = <<"A", "C">> /\ result.alignedSeq2 = <<"G", "T">>
    /\ \A c \in Interior : result.trace[c[1]][c[2]] = DIAGONAL
    /\ result.score = -2

(* ------------------------- properties of the App ----------------------- *)
HasLetter(text) == \E k \in 1..Len(text) : text[k] \in Letters

\* the step in which the oldest waiting handleAlign invocation resumes
Resumes == calls # <<>> /\ calls' = Tail(calls)

Displayed == app.result # NoResult
DisplayedAlgorithm == app.algorithm

\* C21: under any interleaving of Align clicks, the 200 ms delay inside
\* handleAlign and changes of the algorithm select, whenever a result is
\* displayed the algorithm value passed to ResultsDisplay is the algorithm
\* whose engine function computed that result.
C21_DisplayedAlgorithm ==
    Displayed => /\ app.result = result
                 /\ DisplayedAlgorithm = engine

\* a result computed by runNeedlemanWunsch on display while the select, and
\* with it ResultsDisplay's algorithm, says Smith-Waterman
C21_Mislabelled ==
    /\ Displayed
    /\ app.result = result
    /\ engine = NeedlemanWunsch
    /\ DisplayedAlgorithm = SmithWaterman
    /\ ~app.isLoading

====
